---- MODULE Spec2Model ----
\* Ledger engine of the `transaction` crate: PaymentEngine (payments_engine.rs)
\* driven one TransactionEntry at a time through process_entry (processor.rs).
\*
\* Decimal amounts are modelled as integers (one unit = the smallest amount the
\* input can carry); the model's amounts stay far inside the range of
\* rust_decimal, so Decimal overflow is not part of this model.
\* A HashMap is a function whose DOMAIN is the set of keys present.
\* Option<Decimal> is a sequence: <<>> is None, <<d>> is Some(d).
\* A Result is a record whose field `result` is "Ok" or the error's name.
EXTENDS Integers, Sequences, FiniteSets, TLC

\* ---------------------------------------------------------------- bounds
\* Account ids (u16) and transaction ids (u32) are opaque keys: two clients, two
\* ids each. Amounts range over -1..MaxAmount: the engine does not validate
\* the sign of an amount, so zero and negative amounts are inputs too.
MaxAmount == 1

\* The longest input stream process_stream is given.
MaxStream == 3

AccountIds == {1, 2}
TxIds == {1, 2}
Amounts == (0 - 1)..MaxAmount

VARIABLES
    accounts,       \* PaymentEngine.accounts: HashMap<u16, Account>
    transactions,   \* PaymentEngine.transactions: HashMap<u16, HashMap<u32, Transaction>>
    stream,         \* process_stream's input: the entries of the whole stream
    pos,            \* how many entries the for loop has taken from the iterator
    handed          \* the entries passed to process_entry so far, in call order

vars == <<accounts, transactions, stream, pos, handed>>

\* ------------------------------------------------------------ data types
TransactionEntryType == {"Deposit", "Withdrawal", "Dispute", "Resolve", "Chargeback"}

TransactionType == {"Deposit", "Withdrawal"}

TransactionStatus == {"Completed", "Disputed", "Resolved", "Chargebacked"}

PaymentError ==
    {"InsufficientFunds", "InsufficientHoldFunds", "AccountLocked", "AccountNotFound",
     "TransactionNotFound", "InvalidTransactionType", "TransactionAlreadyExists",
     "TransactionAlreadyDisputed", "TransactionIsNotDisputed",
     "InvalidEntryForConversion(MissingAmount)",
     "InvalidEntryForConversion(InvalidTransactionType)"}

Account(client, available, held, total, locked) ==
    [client |-> client, available |-> available, held |-> held,
     total |-> total, locked |-> locked]

Transaction(tx_type, account_id, tx_id, amount, status) ==
    [tx_type |-> tx_type, account_id |-> account_id, tx_id |-> tx_id,
     amount |-> amount, status |-> status]

TransactionEntry(entry_type, account_id, tx_id, amount) ==
    [entry_type |-> entry_type, account_id |-> account_id, tx_id |-> tx_id,
     amount |-> amount]

\* HashMap::insert / entry().or_insert(): the map with key k bound to v.
Put(map, k, v) == [x \in (DOMAIN map) \cup {k} |-> IF x = k THEN v ELSE map[x]]

EmptyMap == <<>>

Ok(self) == [engine |-> self, result |-> "Ok"]

Err(self, e) == [engine |-> self, result |-> e]

\* PaymentEngine::new
new == [accounts |-> EmptyMap, transactions |-> EmptyMap]

\* ------------------------------------------------------------ the store
\* update_account_balance without its guard against negative balances.
update_account_balance_unchecked(self, account_id, available_delta, held_delta, total_delta) ==
    IF account_id \in DOMAIN self.accounts
    THEN Ok([self EXCEPT !.accounts[account_id] =
                [@ EXCEPT !.available = @ + available_delta,
                          !.held = @ + held_delta,
                          !.total = @ + total_delta]])
    ELSE Err(self, "AccountNotFound")

\* update_account_balance that checks and applies one field after the other,
\* so a refusal on held or total leaves the earlier fields updated.
update_account_balance_stepwise(self, account_id, available_delta, held_delta, total_delta) ==
    IF account_id \in DOMAIN self.accounts
    THEN LET account == self.accounts[account_id]
             a1 == [account EXCEPT !.available = @ + available_delta]
             a2 == [a1 EXCEPT !.held = @ + held_delta]
             a3 == [a2 EXCEPT !.total = @ + total_delta]
         IN
         IF a1.available < 0
         THEN Err(self, "InsufficientFunds")
         ELSE IF a2.held < 0
         THEN Err([self EXCEPT !.accounts[account_id] = a1], "InsufficientFunds")
         ELSE IF a3.total < 0
         THEN Err([self EXCEPT !.accounts[account_id] = a2], "InsufficientFunds")
         ELSE Ok([self EXCEPT !.accounts[account_id] = a3])
    ELSE Err(self, "AccountNotFound")

update_account_balance(self, account_id, available_delta, held_delta, total_delta) ==
    IF account_id \in DOMAIN self.accounts
    THEN LET account == self.accounts[account_id] IN
         IF \/ (account.available + available_delta) < 0
            \/ (account.held + held_delta) < 0
            \/ (account.total + total_delta) < 0
         THEN Err(self, "InsufficientFunds")
         ELSE Ok([self EXCEPT !.accounts[account_id] =
                    [account EXCEPT !.available = @ + available_delta,
                                    !.held = @ + held_delta,
                                    !.total = @ + total_delta]])
    ELSE Err(self, "AccountNotFound")

update_transaction_status(self, account_id, tx_id, new_status) ==
    IF account_id \notin DOMAIN self.transactions
    THEN Err(self, "TransactionNotFound")
    ELSE IF tx_id \in DOMAIN self.transactions[account_id]
         THEN Ok([self EXCEPT !.transactions[account_id][tx_id].status = new_status])
         ELSE Err(self, "TransactionNotFound")

\* get_deposit_transaction_status that falls back on the other accounts'
\* transactions when the named account has none with that id.
get_deposit_transaction_status_global(self, account_id, tx_id) ==
    LET owners == {b \in DOMAIN self.transactions : tx_id \in DOMAIN self.transactions[b]}
        owner == IF account_id \in owners THEN account_id ELSE CHOOSE b \in owners : TRUE
    IN
    IF owners = {}
    THEN [result |-> "TransactionNotFound", transaction |-> <<>>]
    ELSE IF self.transactions[owner][tx_id].tx_type # "Deposit"
    THEN [result |-> "InvalidTransactionType", transaction |-> <<>>]
    ELSE [result |-> "Ok", transaction |-> self.transactions[owner][tx_id]]

\* Result<&Transaction, PaymentError>: `transaction` is read only when result = "Ok".
get_deposit_transaction_status(self, account_id, tx_id) ==
    IF account_id \notin DOMAIN self.transactions
    THEN [result |-> "TransactionNotFound", transaction |-> <<>>]
    ELSE LET account_transactions == self.transactions[account_id] IN
         IF tx_id \in DOMAIN account_transactions
         THEN IF account_transactions[tx_id].tx_type # "Deposit"
              THEN [result |-> "InvalidTransactionType", transaction |-> <<>>]
              ELSE [result |-> "Ok", transaction |-> account_transactions[tx_id]]
         ELSE [result |-> "TransactionNotFound", transaction |-> <<>>]

\* check_transaction that never finds the id.
check_transaction_never(self, account_id, tx_id) == FALSE

\* check_transaction over one id space for all accounts: the id is found when
\* any account recorded it.
check_transaction_global(self, account_id, tx_id) ==
    \E b \in DOMAIN self.transactions : tx_id \in DOMAIN self.transactions[b]

check_transaction(self, account_id, tx_id) ==
    /\ account_id \in DOMAIN self.transactions
    /\ tx_id \in DOMAIN self.transactions[account_id]

\* get_or_create_account with insert in place of entry().or_insert: an
\* existing account is replaced by a fresh one.
get_or_create_account_reset(self, account_id) ==
    [self EXCEPT !.accounts = Put(@, account_id, Account(account_id, 0, 0, 0, FALSE))]

get_or_create_account(self, account_id) ==
    IF account_id \in DOMAIN self.accounts
    THEN self
    ELSE [self EXCEPT !.accounts = Put(@, account_id, Account(account_id, 0, 0, 0, FALSE))]

\* insert_transaction that starts the account's map afresh at every insert.
insert_transaction_replace(self, transaction) ==
    [self EXCEPT !.transactions =
        Put(@, transaction.account_id,
            Put(EmptyMap, transaction.tx_id, transaction))]

insert_transaction(self, transaction) ==
    LET account_transactions ==
            IF transaction.account_id \in DOMAIN self.transactions
            THEN self.transactions[transaction.account_id]
            ELSE EmptyMap
    IN [self EXCEPT !.transactions =
            Put(@, transaction.account_id,
                Put(account_transactions, transaction.tx_id, transaction))]

\* lock_account that closes the account: the record is dropped.
lock_account_remove(self, account_id) ==
    [self EXCEPT !.accounts = [b \in DOMAIN @ \ {account_id} |-> @[b]]]

\* lock_account that sets nothing.
lock_account_noop(self, account_id) == self

lock_account(self, account_id) ==
    IF account_id \in DOMAIN self.accounts
    THEN [self EXCEPT !.accounts[account_id].locked = TRUE]
    ELSE self

\* is_account_locked that takes every account for unlocked.
is_account_locked_never(self, account_id) == FALSE

is_account_locked(self, account_id) ==
    IF account_id \in DOMAIN self.accounts
    THEN self.accounts[account_id].locked
    ELSE FALSE

\* process_transaction that opens the account only once the withdrawal is
\* known to be covered: a refused withdrawal leaves no account behind.
process_transaction_create_late(self0, transaction) ==
    LET self == get_or_create_account(self0, transaction.account_id)
        account_available == self.accounts[transaction.account_id].available
    IN
    IF is_account_locked(self, transaction.account_id)
    THEN Err(self, "AccountLocked")
    ELSE IF check_transaction(self, transaction.account_id, transaction.tx_id)
    THEN Err(self, "TransactionAlreadyExists")
    ELSE IF transaction.tx_type = "Withdrawal" /\ ~(account_available >= transaction.amount)
    THEN Err(self0, "InsufficientFunds")
    ELSE LET available_delta ==
                 IF transaction.tx_type = "Deposit"
                 THEN transaction.amount ELSE 0 - transaction.amount
             held_delta == 0
             total_delta ==
                 IF transaction.tx_type = "Deposit"
                 THEN transaction.amount ELSE 0 - transaction.amount
             updated == update_account_balance(self, transaction.account_id,
                                               available_delta, held_delta, total_delta)
         IN IF updated.result # "Ok"
            THEN updated
            ELSE Ok(insert_transaction(updated.engine, transaction))

\* ------------------------------------------------------- the five handlers
\* process_transaction with the duplicate-id check ahead of the lock check.
process_transaction_duplicate_first(self0, transaction) ==
    LET self == get_or_create_account(self0, transaction.account_id)
        account_available == self.accounts[transaction.account_id].available
    IN
    IF check_transaction(self, transaction.account_id, transaction.tx_id)
    THEN Err(self, "TransactionAlreadyExists")
    ELSE IF is_account_locked(self, transaction.account_id)
    THEN Err(self, "AccountLocked")
    ELSE IF transaction.tx_type = "Withdrawal" /\ ~(account_available >= transaction.amount)
    THEN Err(self, "InsufficientFunds")
    ELSE LET delta ==
                 IF transaction.tx_type = "Deposit"
                 THEN transaction.amount ELSE 0 - transaction.amount
             updated == update_account_balance(self, transaction.account_id, delta, 0, delta)
         IN IF updated.result # "Ok"
            THEN updated
            ELSE Ok(insert_transaction(updated.engine, transaction))

\* process_transaction whose withdrawal needs more than the amount available.
process_transaction_strict(self0, transaction) ==
    LET self == get_or_create_account(self0, transaction.account_id)
        account_available == self.accounts[transaction.account_id].available
    IN
    IF is_account_locked(self, transaction.account_id)
    THEN Err(self, "AccountLocked")
    ELSE IF check_transaction(self, transaction.account_id, transaction.tx_id)
    THEN Err(self, "TransactionAlreadyExists")
    ELSE IF transaction.tx_type = "Withdrawal" /\ ~(account_available > transaction.amount)
    THEN Err(self, "InsufficientFunds")
    ELSE LET delta ==
                 IF transaction.tx_type = "Deposit"
                 THEN transaction.amount ELSE 0 - transaction.amount
             updated == update_account_balance(self, transaction.account_id, delta, 0, delta)
         IN IF updated.result # "Ok"
            THEN updated
            ELSE Ok(insert_transaction(updated.engine, transaction))

process_transaction(self0, transaction) ==
    LET self == get_or_create_account(self0, transaction.account_id)
        account_available == self.accounts[transaction.account_id].available
    IN
    IF is_account_locked(self, transaction.account_id)
    THEN Err(self, "AccountLocked")
    ELSE IF check_transaction(self, transaction.account_id, transaction.tx_id)
    THEN Err(self, "TransactionAlreadyExists")
    ELSE IF transaction.tx_type = "Withdrawal" /\ ~(account_available >= transaction.amount)
    THEN Err(self, "InsufficientFunds")
    ELSE LET available_delta ==
                 IF transaction.tx_type = "Deposit"
                 THEN transaction.amount ELSE 0 - transaction.amount
             held_delta == 0
             total_delta ==
                 IF transaction.tx_type = "Deposit"
                 THEN transaction.amount ELSE 0 - transaction.amount
             updated == update_account_balance(self, transaction.account_id,
                                               available_delta, held_delta, total_delta)
         IN IF updated.result # "Ok"
            THEN updated
            ELSE Ok(insert_transaction(updated.engine, transaction))

\* process_dispute that opens the account it names first, as
\* process_transaction does.
process_dispute_creating(self, account_id, tx_id) ==
    LET created == get_or_create_account(self, account_id) IN
        IF is_account_locked(created, account_id)
        THEN Err(created, "AccountLocked")
        ELSE LET found == get_deposit_transaction_status(created, account_id, tx_id) IN
        IF found.result # "Ok"
        THEN Err(created, found.result)
        ELSE LET existing_transaction == found.transaction IN
        IF existing_transaction.status = "Completed"
        THEN LET amount == existing_transaction.amount IN
             IF account_id \notin DOMAIN created.accounts
             THEN Err(created, "AccountNotFound")
             ELSE IF created.accounts[account_id].available < amount
             THEN Err(created, "InsufficientHoldFunds")
             ELSE LET updated == update_account_balance(created, account_id, 0 - amount, amount, 0) IN
                  IF updated.result # "Ok"
                  THEN updated
                  ELSE update_transaction_status(updated.engine, account_id, tx_id, "Disputed")
        ELSE Err(created, "TransactionAlreadyDisputed")

\* process_dispute that accepts a deposit in any status, not only Completed.
process_dispute_any_status(self, account_id, tx_id) ==
    IF is_account_locked(self, account_id)
    THEN Err(self, "AccountLocked")
    ELSE LET found == get_deposit_transaction_status(self, account_id, tx_id) IN
    IF found.result # "Ok"
    THEN Err(self, found.result)
    ELSE LET amount == found.transaction.amount IN
         IF account_id \notin DOMAIN self.accounts
         THEN Err(self, "AccountNotFound")
         ELSE IF self.accounts[account_id].available < amount
         THEN Err(self, "InsufficientHoldFunds")
         ELSE LET updated == update_account_balance(self, account_id, 0 - amount, amount, 0) IN
              IF updated.result # "Ok"
              THEN updated
              ELSE update_transaction_status(updated.engine, account_id, tx_id, "Disputed")

\* process_dispute with the available-funds check ahead of the status check.
process_dispute_funds_first(self, account_id, tx_id) ==
    IF is_account_locked(self, account_id)
    THEN Err(self, "AccountLocked")
    ELSE LET found == get_deposit_transaction_status(self, account_id, tx_id) IN
    IF found.result # "Ok"
    THEN Err(self, found.result)
    ELSE LET amount == found.transaction.amount IN
         IF account_id \notin DOMAIN self.accounts
         THEN Err(self, "AccountNotFound")
         ELSE IF self.accounts[account_id].available < amount
         THEN Err(self, "InsufficientHoldFunds")
         ELSE IF found.transaction.status # "Completed"
         THEN Err(self, "TransactionAlreadyDisputed")
         ELSE LET updated == update_account_balance(self, account_id, 0 - amount, amount, 0) IN
              IF updated.result # "Ok"
              THEN updated
              ELSE update_transaction_status(updated.engine, account_id, tx_id, "Disputed")

process_dispute(self, account_id, tx_id) ==
    IF is_account_locked(self, account_id)
    THEN Err(self, "AccountLocked")
    ELSE LET found == get_deposit_transaction_status(self, account_id, tx_id) IN
    IF found.result # "Ok"
    THEN Err(self, found.result)
    ELSE LET existing_transaction == found.transaction IN
    IF existing_transaction.status = "Completed"
    THEN LET amount == existing_transaction.amount IN
         IF account_id \notin DOMAIN self.accounts
         THEN Err(self, "AccountNotFound")
         ELSE IF self.accounts[account_id].available < amount
         THEN Err(self, "InsufficientHoldFunds")
         ELSE LET updated == update_account_balance(self, account_id, 0 - amount, amount, 0) IN
              IF updated.result # "Ok"
              THEN updated
              ELSE update_transaction_status(updated.engine, account_id, tx_id, "Disputed")
    ELSE Err(self, "TransactionAlreadyDisputed")

\* process_resolve whose held check is `held <= amount`.
process_resolve_strict(self, account_id, tx_id) ==
    IF is_account_locked(self, account_id)
    THEN Err(self, "AccountLocked")
    ELSE LET found == get_deposit_transaction_status(self, account_id, tx_id) IN
    IF found.result # "Ok"
    THEN Err(self, found.result)
    ELSE LET existing_transaction == found.transaction IN
    IF existing_transaction.status # "Disputed"
    THEN IF \/ existing_transaction.status = "Resolved"
            \/ existing_transaction.status = "Chargebacked"
         THEN Err(self, "TransactionAlreadyDisputed")
         ELSE Err(self, "TransactionIsNotDisputed")
    ELSE LET amount == existing_transaction.amount IN
         IF account_id \notin DOMAIN self.accounts
         THEN Err(self, "AccountNotFound")
         ELSE IF self.accounts[account_id].held <= amount
         THEN Err(self, "InsufficientHoldFunds")
         ELSE LET updated == update_account_balance(self, account_id, amount, 0 - amount, 0) IN
              IF updated.result # "Ok"
              THEN updated
              ELSE update_transaction_status(updated.engine, account_id, tx_id, "Resolved")

\* process_resolve that releases the held funds without returning them to
\* available (the deltas of process_chargeback's hold release, total untouched).
process_resolve_no_release(self, account_id, tx_id) ==
    IF is_account_locked(self, account_id)
    THEN Err(self, "AccountLocked")
    ELSE LET found == get_deposit_transaction_status(self, account_id, tx_id) IN
    IF found.result # "Ok"
    THEN Err(self, found.result)
    ELSE LET existing_transaction == found.transaction IN
    IF existing_transaction.status # "Disputed"
    THEN IF \/ existing_transaction.status = "Resolved"
            \/ existing_transaction.status = "Chargebacked"
         THEN Err(self, "TransactionAlreadyDisputed")
         ELSE Err(self, "TransactionIsNotDisputed")
    ELSE LET amount == existing_transaction.amount IN
         IF account_id \notin DOMAIN self.accounts
         THEN Err(self, "AccountNotFound")
         ELSE IF self.accounts[account_id].held < amount
         THEN Err(self, "InsufficientHoldFunds")
         ELSE LET updated == update_account_balance(self, account_id, 0, 0 - amount, 0) IN
              IF updated.result # "Ok"
              THEN updated
              ELSE update_transaction_status(updated.engine, account_id, tx_id, "Resolved")

process_resolve(self, account_id, tx_id) ==
    IF is_account_locked(self, account_id)
    THEN Err(self, "AccountLocked")
    ELSE LET found == get_deposit_transaction_status(self, account_id, tx_id) IN
    IF found.result # "Ok"
    THEN Err(self, found.result)
    ELSE LET existing_transaction == found.transaction IN
    IF existing_transaction.status # "Disputed"
    THEN IF \/ existing_transaction.status = "Resolved"
            \/ existing_transaction.status = "Chargebacked"
         THEN Err(self, "TransactionAlreadyDisputed")
         ELSE Err(self, "TransactionIsNotDisputed")
    ELSE LET amount == existing_transaction.amount IN
         IF account_id \notin DOMAIN self.accounts
         THEN Err(self, "AccountNotFound")
         ELSE IF self.accounts[account_id].held < amount
         THEN Err(self, "InsufficientHoldFunds")
         ELSE LET updated == update_account_balance(self, account_id, amount, 0 - amount, 0) IN
              IF updated.result # "Ok"
              THEN updated
              ELSE update_transaction_status(updated.engine, account_id, tx_id, "Resolved")

\* process_chargeback that takes the amount from held only and leaves total.
process_chargeback_keep_total(self, account_id, tx_id) ==
    IF is_account_locked(self, account_id)
    THEN Err(self, "AccountLocked")
    ELSE LET found == get_deposit_transaction_status(self, account_id, tx_id) IN
    IF found.result # "Ok"
    THEN Err(self, found.result)
    ELSE LET existing_transaction == found.transaction IN
    IF existing_transaction.status # "Disputed"
    THEN IF \/ existing_transaction.status = "Resolved"
            \/ existing_transaction.status = "Chargebacked"
         THEN Err(self, "TransactionAlreadyDisputed")
         ELSE Err(self, "TransactionIsNotDisputed")
    ELSE LET amount == existing_transaction.amount IN
         IF account_id \notin DOMAIN self.accounts
         THEN Err(self, "AccountNotFound")
         ELSE IF self.accounts[account_id].held < amount
         THEN Err(self, "InsufficientHoldFunds")
         ELSE LET updated == update_account_balance(self, account_id, 0, 0 - amount, 0) IN
              IF updated.result # "Ok"
              THEN updated
              ELSE LET marked == update_transaction_status(updated.engine, account_id,
                                                           tx_id, "Chargebacked") IN
                   IF marked.result # "Ok"
                   THEN marked
                   ELSE Ok(lock_account(marked.engine, account_id))

\* process_chargeback that reports every status other than Disputed as
\* TransactionIsNotDisputed.
process_chargeback_one_error(self, account_id, tx_id) ==
    IF is_account_locked(self, account_id)
    THEN Err(self, "AccountLocked")
    ELSE LET found == get_deposit_transaction_status(self, account_id, tx_id) IN
    IF found.result # "Ok"
    THEN Err(self, found.result)
    ELSE LET existing_transaction == found.transaction IN
    IF existing_transaction.status # "Disputed"
    THEN Err(self, "TransactionIsNotDisputed")
    ELSE LET amount == existing_transaction.amount IN
         IF account_id \notin DOMAIN self.accounts
         THEN Err(self, "AccountNotFound")
         ELSE IF self.accounts[account_id].held < amount
         THEN Err(self, "InsufficientHoldFunds")
         ELSE LET updated == update_account_balance(self, account_id, 0, 0 - amount, 0 - amount) IN
              IF updated.result # "Ok"
              THEN updated
              ELSE LET marked == update_transaction_status(updated.engine, account_id,
                                                           tx_id, "Chargebacked") IN
                   IF marked.result # "Ok"
                   THEN marked
                   ELSE Ok(lock_account(marked.engine, account_id))

process_chargeback(self, account_id, tx_id) ==
    IF is_account_locked(self, account_id)
    THEN Err(self, "AccountLocked")
    ELSE LET found == get_deposit_transaction_status(self, account_id, tx_id) IN
    IF found.result # "Ok"
    THEN Err(self, found.result)
    ELSE LET existing_transaction == found.transaction IN
    IF existing_transaction.status # "Disputed"
    THEN IF \/ existing_transaction.status = "Resolved"
            \/ existing_transaction.status = "Chargebacked"
         THEN Err(self, "TransactionAlreadyDisputed")
         ELSE Err(self, "TransactionIsNotDisputed")
    ELSE LET amount == existing_transaction.amount IN
         IF account_id \notin DOMAIN self.accounts
         THEN Err(self, "AccountNotFound")
         ELSE IF self.accounts[account_id].held < amount
         THEN Err(self, "InsufficientHoldFunds")
         ELSE LET updated == update_account_balance(self, account_id, 0, 0 - amount, 0 - amount) IN
              IF updated.result # "Ok"
              THEN updated
              ELSE LET marked == update_transaction_status(updated.engine, account_id,
                                                           tx_id, "Chargebacked") IN
                   IF marked.result # "Ok"
                   THEN marked
                   ELSE Ok(lock_account(marked.engine, account_id))

\* ------------------------------------------------- the entry-stream adapter
\* impl TryFrom<TransactionEntryType> for TransactionType
TransactionType_try_from(value) ==
    IF value \in {"Deposit", "Withdrawal"}
    THEN [result |-> "Ok", tx_type |-> value]
    ELSE [result |-> "InvalidEntryForConversion(InvalidTransactionType)", tx_type |-> value]

\* The conversion with `amount.unwrap_or_default()` in place of ok_or.
Transaction_try_from_default(value) ==
    LET tx_type == TransactionType_try_from(value.entry_type) IN
    IF tx_type.result # "Ok"
    THEN [result |-> tx_type.result, transaction |-> <<>>]
    ELSE [result |-> "Ok",
          transaction |-> Transaction(tx_type.tx_type, value.account_id, value.tx_id,
                                      IF value.amount = <<>> THEN 0 ELSE value.amount[1],
                                      "Completed")]

\* impl TryFrom<TransactionEntry> for Transaction
Transaction_try_from(value) ==
    LET tx_type == TransactionType_try_from(value.entry_type) IN
    IF tx_type.result # "Ok"
    THEN [result |-> tx_type.result, transaction |-> <<>>]
    ELSE IF value.amount = <<>>
    THEN [result |-> "InvalidEntryForConversion(MissingAmount)", transaction |-> <<>>]
    ELSE [result |-> "Ok",
          transaction |-> Transaction(tx_type.tx_type, value.account_id, value.tx_id,
                                      value.amount[1], "Completed")]

process_entry(engine, transaction) ==
    CASE transaction.entry_type \in {"Withdrawal", "Deposit"} ->
             LET converted == Transaction_try_from(transaction) IN
             IF converted.result # "Ok"
             THEN Err(engine, converted.result)
             ELSE process_transaction(engine, converted.transaction)
      [] transaction.entry_type = "Dispute" ->
             process_dispute(engine, transaction.account_id, transaction.tx_id)
      [] transaction.entry_type = "Resolve" ->
             process_resolve(engine, transaction.account_id, transaction.tx_id)
      [] transaction.entry_type = "Chargeback" ->
             process_chargeback(engine, transaction.account_id, transaction.tx_id)

\* ------------------------------------------------------------ the machine
\* The engine of the current state.
Engine == [accounts |-> accounts, transactions |-> transactions]

\* Option<Decimal> values an entry's amount column may hold.
OptionAmounts == {<<>>} \cup {<<d>> : d \in Amounts}

Init ==
    /\ accounts = new.accounts
    /\ transactions = new.transactions
    /\ stream = <<>>
    /\ pos = 0
    /\ handed = <<>>

\* What process_entry returns for entry e in the current state.
Run(e) == process_entry(Engine, e)

\* Each action is one iteration of process_stream's loop, by the kind of the
\* next entry: process_entry on it; the returned error is only logged and the
\* engine carries on.
Deposit ==
    \E a \in AccountIds, t \in TxIds, d \in OptionAmounts :
        LET e == TransactionEntry("Deposit", a, t, d)
            r == Run(e)
        IN
        /\ accounts' = r.engine.accounts
        /\ transactions' = r.engine.transactions
        /\ UNCHANGED <<stream, pos, handed>>

Withdrawal ==
    \E a \in AccountIds, t \in TxIds, d \in OptionAmounts :
        LET e == TransactionEntry("Withdrawal", a, t, d)
            r == Run(e)
        IN
        /\ accounts' = r.engine.accounts
        /\ transactions' = r.engine.transactions
        /\ UNCHANGED <<stream, pos, handed>>

Dispute ==
    \E a \in AccountIds, t \in TxIds :
        LET e == TransactionEntry("Dispute", a, t, <<>>)
            r == Run(e)
        IN
        /\ accounts' = r.engine.accounts
        /\ transactions' = r.engine.transactions
        /\ UNCHANGED <<stream, pos, handed>>

Resolve ==
    \E a \in AccountIds, t \in TxIds :
        LET e == TransactionEntry("Resolve", a, t, <<>>)
            r == Run(e)
        IN
        /\ accounts' = r.engine.accounts
        /\ transactions' = r.engine.transactions
        /\ UNCHANGED <<stream, pos, handed>>

Chargeback ==
    \E a \in AccountIds, t \in TxIds :
        LET e == TransactionEntry("Chargeback", a, t, <<>>)
            r == Run(e)
        IN
        /\ accounts' = r.engine.accounts
        /\ transactions' = r.engine.transactions
        /\ UNCHANGED <<stream, pos, handed>>

Next == Deposit \/ Withdrawal \/ Dispute \/ Resolve \/ Chargeback

Spec == Init /\ [][Next]_vars

\* ------------------------------------------- process_entry, fewer inputs
\* The same five steps on fewer entries: client 1 uses two transaction ids
\* and client 2 one. Each client alone passes through every state it has under
\* Spec with the ids it uses; the two together are fewer.
Keys == {<<1, 1>>, <<1, 2>>, <<2, 1>>}

KeyedDeposit ==
    \E k \in Keys, d \in OptionAmounts :
        LET e == TransactionEntry("Deposit", k[1], k[2], d)
            r == Run(e)
        IN
        /\ accounts' = r.engine.accounts
        /\ transactions' = r.engine.transactions
        /\ UNCHANGED <<stream, pos, handed>>

KeyedWithdrawal ==
    \E k \in Keys, d \in OptionAmounts :
        LET e == TransactionEntry("Withdrawal", k[1], k[2], d)
            r == Run(e)
        IN
        /\ accounts' = r.engine.accounts
        /\ transactions' = r.engine.transactions
        /\ UNCHANGED <<stream, pos, handed>>

KeyedDispute ==
    \E k \in Keys :
        LET e == TransactionEntry("Dispute", k[1], k[2], <<>>)
            r == Run(e)
        IN
        /\ accounts' = r.engine.accounts
        /\ transactions' = r.engine.transactions
        /\ UNCHANGED <<stream, pos, handed>>

KeyedResolve ==
    \E k \in Keys :
        LET e == TransactionEntry("Resolve", k[1], k[2], <<>>)
            r == Run(e)
        IN
        /\ accounts' = r.engine.accounts
        /\ transactions' = r.engine.transactions
        /\ UNCHANGED <<stream, pos, handed>>

KeyedChargeback ==
    \E k \in Keys :
        LET e == TransactionEntry("Chargeback", k[1], k[2], <<>>)
            r == Run(e)
        IN
        /\ accounts' = r.engine.accounts
        /\ transactions' = r.engine.transactions
        /\ UNCHANGED <<stream, pos, handed>>

KeyedNext ==
    KeyedDeposit \/ KeyedWithdrawal \/ KeyedDispute \/ KeyedResolve \/ KeyedChargeback

KeyedSpec == Init /\ [][KeyedNext]_vars

\* ------------------------------------------------- process_stream, whole
\* The entries the streams are made of: a deposit, the same deposit without
\* its amount (refused by the conversion), a withdrawal that the funds may or
\* may not cover, the three dispute events on the deposit, and a deposit of
\* another client.
StreamEntries ==
    { TransactionEntry("Deposit", 1, 1, <<1>>),
      TransactionEntry("Deposit", 1, 1, <<>>),
      TransactionEntry("Withdrawal", 1, 2, <<1>>),
      TransactionEntry("Dispute", 1, 1, <<>>),
      TransactionEntry("Resolve", 1, 1, <<>>),
      TransactionEntry("Chargeback", 1, 1, <<>>),
      TransactionEntry("Deposit", 2, 1, <<1>>) }

Streams == UNION {[1..n -> StreamEntries] : n \in 0..MaxStream}

\* One iteration that leaves the loop at the first error, as
\* `process_entry(engine, transaction)?` would.
process_stream_step_abort(engine, s, p) ==
    LET transaction == s[p + 1]
        result == process_entry(engine, transaction)
    IN [engine |-> result.engine,
        pos |-> IF result.result = "Ok" THEN p + 1 ELSE Len(s),
        handed |-> <<transaction>>]

\* One iteration of `for transaction in stream`: the iterator yields entry
\* p + 1, process_entry gets it, and an Err is printed and dropped.
process_stream_step(engine, s, p) ==
    LET transaction == s[p + 1]
        result == process_entry(engine, transaction)
    IN [engine |-> result.engine,
        pos |-> p + 1,
        handed |-> <<transaction>>]

StreamInit ==
    /\ accounts = new.accounts
    /\ transactions = new.transactions
    /\ stream \in Streams
    /\ pos = 0
    /\ handed = <<>>

\* The loop body runs while the iterator has an entry left; the loop ends when
\* it has none.
Iterate ==
    /\ pos < Len(stream)
    /\ LET step == process_stream_step(Engine, stream, pos) IN
        /\ accounts' = step.engine.accounts
        /\ transactions' = step.engine.transactions
        /\ pos' = step.pos
        /\ handed' = handed \o step.handed
    /\ UNCHANGED stream

StreamNext == Iterate

\* process_entry returns for every entry and the iterator is finite, so the
\* loop keeps taking entries while there is one.
StreamSpec == StreamInit /\ [][StreamNext]_vars /\ WF_vars(Iterate)

\* The engine after process_entry on each entry of s in turn, errors dropped.
RECURSIVE Fold(_, _)
Fold(engine, s) ==
    IF s = <<>>
    THEN engine
    ELSE Fold(process_entry(engine, Head(s)).engine, Tail(s))

\* ------------------------------------------------- observing a call
\* Every TransactionEntry the stream can carry: deposits and withdrawals with
\* or without an amount, disputes, resolves and chargebacks without one (the
\* three handlers never read the amount column).
Entries ==
    {TransactionEntry(k, a, t, d) :
        k \in {"Deposit", "Withdrawal"}, a \in AccountIds, t \in TxIds, d \in OptionAmounts}
    \cup
    {TransactionEntry(k, a, t, <<>>) :
        k \in {"Dispute", "Resolve", "Chargeback"}, a \in AccountIds, t \in TxIds}

\* The entries that reach one of the engine's five handlers.
EngineEntries == {e \in Entries : e.entry_type \in {"Deposit", "Withdrawal"} => e.amount # <<>>}

HasAccount(eng, a) == a \in DOMAIN eng.accounts

Locked(eng, a) == HasAccount(eng, a) /\ eng.accounts[a].locked

\* The transactions stored under account a (no bucket and an empty one hold none).
Bucket(eng, a) == IF a \in DOMAIN eng.transactions THEN eng.transactions[a] ELSE EmptyMap

HasTx(eng, a, t) == t \in DOMAIN Bucket(eng, a)

\* The balances of account a; an account not yet created holds nothing.
Balance(eng, a) ==
    IF HasAccount(eng, a)
    THEN [available |-> eng.accounts[a].available, held |-> eng.accounts[a].held,
          total |-> eng.accounts[a].total]
    ELSE [available |-> 0, held |-> 0, total |-> 0]

\* ------------------------------------------------------------------ C1
\* C1: in every reachable state, whatever events (successful or failing, with
\* zero or negative amounts too) led to it, every account has
\* total = available + held, available >= 0 and held >= 0.
C1_BalanceInvariant ==
    \A a \in DOMAIN accounts :
        /\ accounts[a].total = accounts[a].available + accounts[a].held
        /\ accounts[a].available >= 0
        /\ accounts[a].held >= 0

\* An account with funds on hold that also recorded a negative amount.
C1_Witness ==
    \E a \in DOMAIN accounts :
        /\ accounts[a].held > 0
        /\ \E t \in DOMAIN Bucket(Engine, a) : Bucket(Engine, a)[t].amount < 0

\* ------------------------------------------------------------------ C2
\* C2: once an account is locked, no entry naming it (of any of the five kinds)
\* changes its available, held, total, the status or anything else of a
\* transaction stored under it, or records a new transaction under it.
C2_LockedAccountFrozen ==
    \A e \in Entries :
        Locked(Engine, e.account_id) =>
            LET after == Run(e).engine IN
            /\ after.accounts[e.account_id] = accounts[e.account_id]
            /\ Bucket(after, e.account_id) = Bucket(Engine, e.account_id)

\* A locked account with a free tx id, on which a deposit of 1 (which an
\* unlocked account always accepts) is turned away.
C2_Witness ==
    \E a \in AccountIds, t \in TxIds, u \in TxIds :
        /\ Locked(Engine, a)
        /\ HasTx(Engine, a, t) /\ Bucket(Engine, a)[t].status = "Chargebacked"
        /\ ~HasTx(Engine, a, u)
        /\ Run(TransactionEntry("Deposit", a, u, <<1>>)).result # "Ok"

\* ------------------------------------------------------------------ C3
\* C3: each of the five operations on a locked account returns AccountLocked,
\* before any other check: also when the tx id is a duplicate, unknown, a
\* withdrawal's, in the wrong status, or the funds are insufficient.
C3_LockedFirst ==
    \A e \in EngineEntries :
        Locked(Engine, e.account_id) => Run(e).result = "AccountLocked"

\* A locked account with a recorded withdrawal and a Chargebacked deposit:
\* duplicate ids, a withdrawal's id and a wrong status are all at hand.
C3_Witness ==
    \E a \in AccountIds, t \in TxIds, u \in TxIds :
        /\ Locked(Engine, a)
        /\ HasTx(Engine, a, t) /\ Bucket(Engine, a)[t].tx_type = "Withdrawal"
        /\ HasTx(Engine, a, u) /\ Bucket(Engine, a)[u].status = "Chargebacked"
        /\ Run(TransactionEntry("Dispute", a, t, <<>>)).result = "AccountLocked"
        /\ Run(TransactionEntry("Withdrawal", a, t, <<1>>)).result = "AccountLocked"

\* ------------------------------------------------------------------ C4
\* C4: a stored transaction's status only moves Completed -> Disputed ->
\* Resolved or Completed -> Disputed -> Chargebacked: a transaction is created
\* Completed; only a successful dispute of it moves it to Disputed, only a
\* successful resolve (chargeback) of it, while Disputed, to Resolved
\* (Chargebacked); Resolved and Chargebacked never change again.
C4_StatusMoves ==
    \A e \in Entries :
        LET r == Run(e)
            after == r.engine
        IN
        \A a \in AccountIds, t \in TxIds :
        LET same == e.account_id = a /\ e.tx_id = t /\ r.result = "Ok" IN
        /\ HasTx(Engine, a, t) => HasTx(after, a, t)
        /\ (~HasTx(Engine, a, t) /\ HasTx(after, a, t)) =>
               Bucket(after, a)[t].status = "Completed"
        /\ HasTx(Engine, a, t) =>
               LET s0 == Bucket(Engine, a)[t].status
                   s1 == Bucket(after, a)[t].status
               IN \/ s1 = s0
                  \/ s0 = "Completed" /\ s1 = "Disputed"
                       /\ same /\ e.entry_type = "Dispute"
                  \/ s0 = "Disputed" /\ s1 = "Resolved"
                       /\ same /\ e.entry_type = "Resolve"
                  \/ s0 = "Disputed" /\ s1 = "Chargebacked"
                       /\ same /\ e.entry_type = "Chargeback"

\* An engine that has seen both ends of the lifecycle: one deposit Resolved
\* (which a further dispute must not reopen) and one Chargebacked.
C4_Witness ==
    /\ \E a \in AccountIds, t \in TxIds :
        /\ HasTx(Engine, a, t) /\ Bucket(Engine, a)[t].status = "Resolved"
        /\ ~Locked(Engine, a)
        /\ accounts[a].available >= Bucket(Engine, a)[t].amount
        /\ Run(TransactionEntry("Dispute", a, t, <<>>)).result # "Ok"
    /\ \E a \in AccountIds, t \in TxIds :
        HasTx(Engine, a, t) /\ Bucket(Engine, a)[t].status = "Chargebacked"

\* ------------------------------------------------------------------ C5
\* The deposit and withdrawal entries that carry an amount.
MoneyEntries == {e \in EngineEntries : e.entry_type \in {"Deposit", "Withdrawal"}}

\* C5 as stated: replaying a deposit or withdrawal that succeeded fails with
\* TransactionAlreadyExists and changes nothing; and any deposit or withdrawal
\* whose tx id is already recorded for its account is rejected with
\* TransactionAlreadyExists, whatever its type or amount, and overwrites nothing.
C5_Original ==
    \A e \in MoneyEntries :
        LET r == Run(e) IN
        /\ r.result = "Ok" =>
               LET again == process_entry(r.engine, e) IN
               /\ again.result = "TransactionAlreadyExists"
               /\ again.engine = r.engine
        /\ HasTx(Engine, e.account_id, e.tx_id) =>
               /\ r.result = "TransactionAlreadyExists"
               /\ r.engine = Engine

\* C5 (amended): replaying a deposit or withdrawal that succeeded fails with
\* TransactionAlreadyExists and leaves the state of the single application; a
\* deposit or withdrawal whose tx id is already recorded for its account is
\* rejected whatever its type or amount, with TransactionAlreadyExists when the
\* account is unlocked and with AccountLocked when it is locked, and in both
\* cases nothing is overwritten.
C5_DuplicateRejected ==
    \A e \in MoneyEntries :
        LET r == Run(e) IN
        /\ r.result = "Ok" =>
               LET again == process_entry(r.engine, e) IN
               /\ again.result = "TransactionAlreadyExists"
               /\ again.engine = r.engine
        /\ HasTx(Engine, e.account_id, e.tx_id) =>
               /\ r.result = IF Locked(Engine, e.account_id)
                             THEN "AccountLocked"
                             ELSE "TransactionAlreadyExists"
               /\ r.engine = Engine

\* An unlocked account whose Disputed deposit of 1 is named again by a
\* withdrawal of 0 (another type, another amount), and an entry that succeeds.
C5_Witness ==
    /\ \E a \in AccountIds, t \in TxIds :
        /\ HasTx(Engine, a, t) /\ ~Locked(Engine, a)
        /\ Bucket(Engine, a)[t] = Transaction("Deposit", a, t, 1, "Disputed")
        /\ Run(TransactionEntry("Withdrawal", a, t, <<0>>)).result = "TransactionAlreadyExists"
    /\ \E e \in MoneyEntries : Run(e).result = "Ok"

\* ------------------------------------------------------------------ C6
\* C6: an entry that returns an error leaves available, held, total and locked
\* of every existing account unchanged, leaves every stored transaction and
\* its status unchanged and records no transaction: no handler applies its
\* balance change without its status change or the reverse.
C6_ErrorChangesNothing ==
    \A e \in Entries :
        LET r == Run(e) IN
        r.result # "Ok" =>
            /\ \A a \in DOMAIN accounts :
                   /\ HasAccount(r.engine, a)
                   /\ r.engine.accounts[a] = accounts[a]
            /\ r.engine.transactions = transactions

\* A dispute that passes the handler's own funds check and is then refused by
\* update_account_balance, next to a withdrawal refused for lack of funds.
C6_Witness ==
    /\ \E a \in AccountIds, t \in TxIds :
        Run(TransactionEntry("Dispute", a, t, <<>>)).result = "InsufficientFunds"
    /\ \E a \in AccountIds, t \in TxIds :
        /\ HasAccount(Engine, a)
        /\ Run(TransactionEntry("Withdrawal", a, t, <<1>>)).result = "InsufficientFunds"

\* ------------------------------------------------------------------ C7
\* C7: a dispute of a Completed deposit on an unlocked account succeeds exactly
\* when available >= the deposit's amount; on success available decreases and
\* held increases by the amount, total is unchanged and the status becomes
\* Disputed; otherwise it fails with InsufficientHoldFunds and balances and
\* status are unchanged.
C7_DisputeFundsCheck ==
    \A a \in AccountIds, t \in TxIds :
        (/\ HasAccount(Engine, a) /\ ~Locked(Engine, a)
         /\ HasTx(Engine, a, t)
         /\ Bucket(Engine, a)[t].tx_type = "Deposit"
         /\ Bucket(Engine, a)[t].status = "Completed") =>
            LET r == Run(TransactionEntry("Dispute", a, t, <<>>))
                amount == Bucket(Engine, a)[t].amount
                pre == accounts[a]
                post == r.engine.accounts[a]
            IN
            /\ r.result = "Ok" <=> pre.available >= amount
            /\ r.result = "Ok" =>
                   /\ post.available = pre.available - amount
                   /\ post.held = pre.held + amount
                   /\ post.total = pre.total
                   /\ Bucket(r.engine, a)[t].status = "Disputed"
            /\ r.result # "Ok" =>
                   /\ r.result = "InsufficientHoldFunds"
                   /\ post = pre
                   /\ Bucket(r.engine, a)[t].status = "Completed"

\* ------------------------------------------------------------------ C8
\* C8: a successful resolve acts on a Disputed deposit: held decreases and
\* available increases by the deposit's amount, total and locked are
\* unchanged, the status becomes Resolved; and a resolve right after a
\* successful dispute succeeds and restores the account as it was before
\* the dispute.
C8_Resolve ==
    \A a \in AccountIds, t \in TxIds :
        LET r == Run(TransactionEntry("Resolve", a, t, <<>>))
            d == Run(TransactionEntry("Dispute", a, t, <<>>))
        IN
        /\ r.result = "Ok" =>
               /\ HasTx(Engine, a, t)
               /\ Bucket(Engine, a)[t].tx_type = "Deposit"
               /\ Bucket(Engine, a)[t].status = "Disputed"
               /\ LET amount == Bucket(Engine, a)[t].amount
                      pre == accounts[a]
                      post == r.engine.accounts[a]
                  IN /\ post.held = pre.held - amount
                     /\ post.available = pre.available + amount
                     /\ post.total = pre.total
                     /\ post.locked = pre.locked
                     /\ Bucket(r.engine, a)[t].status = "Resolved"
        /\ d.result = "Ok" =>
               LET back == process_entry(d.engine, TransactionEntry("Resolve", a, t, <<>>)) IN
               /\ back.result = "Ok"
               /\ back.engine.accounts[a] = accounts[a]

\* An account with one deposit already Resolved, funds available, and a second
\* deposit Disputed whose resolve succeeds.
C8_Witness ==
    \E a \in AccountIds, t \in TxIds, u \in TxIds :
        /\ HasTx(Engine, a, t) /\ Bucket(Engine, a)[t].status = "Resolved"
        /\ accounts[a].available > 0
        /\ HasTx(Engine, a, u) /\ Bucket(Engine, a)[u].amount > 0
        /\ Run(TransactionEntry("Resolve", a, u, <<>>)).result = "Ok"

\* ------------------------------------------------------------------ C9
\* C9: a successful chargeback acts on a Disputed deposit: held and total
\* decrease by the deposit's amount, available is unchanged, the status
\* becomes Chargebacked and the owning account is locked.
C9_Chargeback ==
    \A a \in AccountIds, t \in TxIds :
        LET r == Run(TransactionEntry("Chargeback", a, t, <<>>)) IN
        r.result = "Ok" =>
            /\ HasTx(Engine, a, t)
            /\ Bucket(Engine, a)[t].tx_type = "Deposit"
            /\ Bucket(Engine, a)[t].status = "Disputed"
            /\ LET amount == Bucket(Engine, a)[t].amount
                   pre == accounts[a]
                   post == r.engine.accounts[a]
               IN /\ post.held = pre.held - amount
                  /\ post.total = pre.total - amount
                  /\ post.available = pre.available
                  /\ post.locked = TRUE
                  /\ Bucket(r.engine, a)[t].status = "Chargebacked"

\* One account already charged back and locked, and another whose Disputed
\* deposit of a positive amount can be charged back while funds stay available.
C9_Witness ==
    /\ \E a \in AccountIds, t \in TxIds :
        /\ Locked(Engine, a)
        /\ HasTx(Engine, a, t) /\ Bucket(Engine, a)[t].status = "Chargebacked"
    /\ \E a \in AccountIds, t \in TxIds :
        /\ HasTx(Engine, a, t) /\ Bucket(Engine, a)[t].amount > 0
        /\ accounts[a].available > 0
        /\ Run(TransactionEntry("Chargeback", a, t, <<>>)).result = "Ok"

\* ------------------------------------------------------------------ C10
\* C10: a deposit with amount >= 0 on an unlocked account (or one not yet
\* created), with a tx id not recorded for that account, succeeds: available
\* and total increase by the amount, held is unchanged, and the transaction
\* (Deposit, account_id, tx_id, amount, Completed) is recorded under the pair.
C10_Deposit ==
    \A a \in AccountIds, t \in TxIds, amount \in Amounts :
        (amount >= 0 /\ ~Locked(Engine, a) /\ ~HasTx(Engine, a, t)) =>
            LET r == Run(TransactionEntry("Deposit", a, t, <<amount>>))
                pre == Balance(Engine, a)
                post == Balance(r.engine, a)
            IN
            /\ r.result = "Ok"
            /\ HasAccount(r.engine, a)
            /\ post.available = pre.available + amount
            /\ post.total = pre.total + amount
            /\ post.held = pre.held
            /\ HasTx(r.engine, a, t)
            /\ Bucket(r.engine, a)[t] = Transaction("Deposit", a, t, amount, "Completed")

\* An unlocked account with funds on hold and a free tx id, next to an account
\* that no entry has named yet.
C10_Witness ==
    /\ \E a \in AccountIds, t \in TxIds :
        /\ HasAccount(Engine, a) /\ ~Locked(Engine, a)
        /\ accounts[a].held > 0
        /\ ~HasTx(Engine, a, t)
        /\ Run(TransactionEntry("Deposit", a, t, <<1>>)).result = "Ok"
    /\ \E a \in AccountIds : ~HasAccount(Engine, a)

\* ------------------------------------------------------------------ C11
\* C11: a withdrawal on an unlocked account (or one not yet created) with a tx
\* id not recorded for it succeeds exactly when the account's available (not
\* its total) is >= the amount, the case available = amount included: on
\* success available and total decrease by the amount, held is unchanged and
\* the transaction (Withdrawal, account_id, tx_id, amount, Completed) is
\* recorded; otherwise it fails with InsufficientFunds, the balances are
\* unchanged and no transaction is recorded.
C11_Withdrawal ==
    \A a \in AccountIds, t \in TxIds, amount \in Amounts :
        (~Locked(Engine, a) /\ ~HasTx(Engine, a, t)) =>
            LET r == Run(TransactionEntry("Withdrawal", a, t, <<amount>>))
                pre == Balance(Engine, a)
                post == Balance(r.engine, a)
            IN
            /\ r.result = "Ok" <=> pre.available >= amount
            /\ r.result = "Ok" =>
                   /\ post.available = pre.available - amount
                   /\ post.total = pre.total - amount
                   /\ post.held = pre.held
                   /\ HasTx(r.engine, a, t)
                   /\ Bucket(r.engine, a)[t] =
                          Transaction("Withdrawal", a, t, amount, "Completed")
            /\ r.result # "Ok" =>
                   /\ r.result = "InsufficientFunds"
                   /\ post = pre
                   /\ r.engine.transactions = transactions

\* An unlocked account whose total (1) exceeds its available (0) because a
\* deposit is on hold: a withdrawal of 1 is refused, one of 0 (exactly the
\* available balance) is accepted.
C11_Witness ==
    \E a \in AccountIds, t \in TxIds :
        /\ HasAccount(Engine, a) /\ ~Locked(Engine, a) /\ ~HasTx(Engine, a, t)
        /\ accounts[a].total = 1 /\ accounts[a].available = 0
        /\ Run(TransactionEntry("Withdrawal", a, t, <<1>>)).result = "InsufficientFunds"
        /\ Run(TransactionEntry("Withdrawal", a, t, <<0>>)).result = "Ok"

\* ------------------------------------------------------------------ C12
\* C12: a resolve or a chargeback on an unlocked account returns
\* TransactionNotFound if (account_id, tx_id) is not recorded, else
\* InvalidTransactionType if the recorded transaction is a Withdrawal, else
\* TransactionIsNotDisputed if its status is Completed, else
\* TransactionAlreadyDisputed if its status is Resolved or Chargebacked; it
\* succeeds only when the status is Disputed, and raises none of these four
\* errors then.
C12_ResolveChargebackErrors ==
    \A k \in {"Resolve", "Chargeback"}, a \in AccountIds, t \in TxIds :
        \* The current engine, and (an account with a Chargebacked transaction
        \* being locked in every reachable state) the engine with a's lock lifted.
        \A eng \in {Engine} \cup {[Engine EXCEPT !.accounts[b].locked = FALSE] :
                                     b \in {a} \cap DOMAIN accounts} :
        ~Locked(eng, a) =>
            LET r == process_entry(eng, TransactionEntry(k, a, t, <<>>)) IN
            IF ~HasTx(eng, a, t)
            THEN r.result = "TransactionNotFound"
            ELSE LET tx == Bucket(eng, a)[t] IN
                 IF tx.tx_type = "Withdrawal"
                 THEN r.result = "InvalidTransactionType"
                 ELSE IF tx.status = "Completed"
                 THEN r.result = "TransactionIsNotDisputed"
                 ELSE IF tx.status \in {"Resolved", "Chargebacked"}
                 THEN r.result = "TransactionAlreadyDisputed"
                 ELSE /\ tx.status = "Disputed"
                      /\ r.result \notin {"TransactionNotFound", "InvalidTransactionType",
                                          "TransactionIsNotDisputed",
                                          "TransactionAlreadyDisputed"}

\* An unlocked account with a Resolved deposit and a Completed withdrawal, next
\* to an account with a Chargebacked deposit.
C12_Witness ==
    /\ \E a \in AccountIds, t \in TxIds :
        HasTx(Engine, a, t) /\ Bucket(Engine, a)[t].status = "Chargebacked"
    /\ \E a \in AccountIds, t \in TxIds, u \in TxIds :
        /\ ~Locked(Engine, a)
        /\ HasTx(Engine, a, t) /\ Bucket(Engine, a)[t].status = "Resolved"
        /\ HasTx(Engine, a, u) /\ Bucket(Engine, a)[u].tx_type = "Withdrawal"
        /\ Run(TransactionEntry("Chargeback", a, t, <<>>)).result = "TransactionAlreadyDisputed"
        /\ Run(TransactionEntry("Resolve", a, u, <<>>)).result = "InvalidTransactionType"

\* ------------------------------------------------------------------ C13
\* C13: a dispute on an unlocked account returns TransactionNotFound if
\* (account_id, tx_id) is not recorded, InvalidTransactionType if the recorded
\* transaction is a Withdrawal, and TransactionAlreadyDisputed if the deposit's
\* status is Disputed, Resolved or Chargebacked; these come before the
\* available-funds check, so they are returned whatever the available balance.
C13_DisputeErrors ==
    \A a \in AccountIds, t \in TxIds :
        ~Locked(Engine, a) =>
            LET r == Run(TransactionEntry("Dispute", a, t, <<>>)) IN
            IF ~HasTx(Engine, a, t)
            THEN r.result = "TransactionNotFound"
            ELSE LET tx == Bucket(Engine, a)[t] IN
                 IF tx.tx_type = "Withdrawal"
                 THEN r.result = "InvalidTransactionType"
                 ELSE IF tx.status # "Completed"
                 THEN r.result = "TransactionAlreadyDisputed"
                 ELSE r.result \notin {"TransactionNotFound", "InvalidTransactionType",
                                       "TransactionAlreadyDisputed"}

\* An unlocked account whose available balance (0) is below the amount of its
\* Disputed deposit, so that the funds check would fail: the dispute reports
\* the status, and for the account's withdrawal the type.
C13_Witness ==
    \E a \in AccountIds, t \in TxIds, u \in TxIds :
        /\ HasAccount(Engine, a) /\ ~Locked(Engine, a)
        /\ accounts[a].available = 0
        /\ HasTx(Engine, a, t) /\ Bucket(Engine, a)[t] = Transaction("Deposit", a, t, 1, "Disputed")
        /\ HasTx(Engine, a, u) /\ Bucket(Engine, a)[u].tx_type = "Withdrawal"
        /\ Run(TransactionEntry("Dispute", a, t, <<>>)).result = "TransactionAlreadyDisputed"
        /\ Run(TransactionEntry("Dispute", a, u, <<>>)).result = "InvalidTransactionType"

\* ------------------------------------------------------------------ C14
\* Entry e leaves every account other than the one it names as it was: the
\* account record, and the transactions stored under it.
OthersUntouched(e, after) ==
    \A b \in AccountIds \ {e.account_id} :
        /\ HasAccount(after, b) = HasAccount(Engine, b)
        /\ HasAccount(Engine, b) => after.accounts[b] = accounts[b]
        /\ (b \in DOMAIN after.transactions) = (b \in DOMAIN transactions)
        /\ Bucket(after, b) = Bucket(Engine, b)

\* Account a did not create the transaction t that another account recorded:
\* a has nothing under t, or a withdrawal of its own.
NotCreatedBy(a, t) ==
    /\ \E b \in AccountIds \ {a} : HasTx(Engine, b, t)
    /\ HasTx(Engine, a, t) => Bucket(Engine, a)[t].tx_type = "Withdrawal"

DisputeKinds == {"Dispute", "Resolve", "Chargeback"}

\* C14 as stated: a dispute, resolve or chargeback naming a tx id under an
\* account that did not create that transaction fails with
\* TransactionNotFound, or with InvalidTransactionType if that account has a
\* withdrawal with the same id, and leaves the owning account untouched; and
\* an entry naming account A never changes the record or the transactions of
\* another account B.
C14_Original ==
    /\ \A k \in DisputeKinds, a \in AccountIds, t \in TxIds :
        NotCreatedBy(a, t) =>
            LET e == TransactionEntry(k, a, t, <<>>)
                r == Run(e)
            IN /\ r.result = IF HasTx(Engine, a, t)
                             THEN "InvalidTransactionType"
                             ELSE "TransactionNotFound"
               /\ OthersUntouched(e, r.engine)
    /\ \A e \in Entries : OthersUntouched(e, Run(e).engine)

\* C14 (amended): such a dispute, resolve or chargeback fails with
\* AccountLocked if the account it names is locked, and otherwise with
\* TransactionNotFound, or with InvalidTransactionType if that account has a
\* withdrawal with the same id; it changes nothing, so the owning account is
\* untouched; and an entry naming account A never changes the record or the
\* transactions of another account B.
C14_Isolation ==
    /\ \A k \in DisputeKinds, a \in AccountIds, t \in TxIds :
        NotCreatedBy(a, t) =>
            LET e == TransactionEntry(k, a, t, <<>>)
                r == Run(e)
            IN /\ r.result = IF Locked(Engine, a) THEN "AccountLocked"
                             ELSE IF HasTx(Engine, a, t)
                             THEN "InvalidTransactionType"
                             ELSE "TransactionNotFound"
               /\ r.engine = Engine
    /\ \A e \in Entries : OthersUntouched(e, Run(e).engine)

\* Account b holds a Disputed deposit of 1 under id t; account a exists, is
\* unlocked, has funds of its own and nothing under t: the chargeback naming
\* (a, t) is turned away although the one naming (b, t) would succeed.
C14_Witness ==
    \E a \in AccountIds, b \in AccountIds, t \in TxIds :
        /\ a # b
        /\ HasTx(Engine, b, t) /\ Bucket(Engine, b)[t] = Transaction("Deposit", b, t, 1, "Disputed")
        /\ HasAccount(Engine, a) /\ ~Locked(Engine, a) /\ accounts[a].available > 0
        /\ ~HasTx(Engine, a, t)
        /\ Run(TransactionEntry("Chargeback", a, t, <<>>)).result = "TransactionNotFound"
        /\ Run(TransactionEntry("Chargeback", b, t, <<>>)).result = "Ok"

\* ------------------------------------------------------------------ C15
\* C15: an account is created unlocked; its locked flag becomes true only by a
\* successful chargeback naming that account; once true it stays true (and the
\* account stays) under every entry.
C15_LockedFlag ==
    \A e \in Entries :
        LET r == Run(e) IN
        \A a \in AccountIds :
            /\ (~HasAccount(Engine, a) /\ HasAccount(r.engine, a)) =>
                   r.engine.accounts[a].locked = FALSE
            /\ (HasAccount(Engine, a) /\ ~Locked(Engine, a) /\ Locked(r.engine, a)) =>
                   /\ e.entry_type = "Chargeback"
                   /\ e.account_id = a
                   /\ r.result = "Ok"
            /\ Locked(Engine, a) => Locked(r.engine, a)

\* One account locked by a chargeback, another unlocked with a Disputed deposit
\* whose chargeback would lock it.
C15_Witness ==
    \E a \in AccountIds, b \in AccountIds, t \in TxIds :
        /\ Locked(Engine, a)
        /\ HasAccount(Engine, b) /\ ~Locked(Engine, b)
        /\ Locked(Run(TransactionEntry("Chargeback", b, t, <<>>)).engine, b)

\* ------------------------------------------------------------------ C16
\* C16 as stated: a dispute, resolve or chargeback entry submitted again right
\* after it succeeded fails with TransactionAlreadyDisputed and changes
\* nothing: balances and status stay as the first application left them.
C16_Original ==
    \A k \in DisputeKinds, a \in AccountIds, t \in TxIds :
        LET e == TransactionEntry(k, a, t, <<>>)
            r == Run(e)
        IN r.result = "Ok" =>
               LET again == process_entry(r.engine, e) IN
               /\ again.result = "TransactionAlreadyDisputed"
               /\ again.engine = r.engine

\* C16 (amended): a dispute or resolve entry submitted again right after it
\* succeeded fails with TransactionAlreadyDisputed, a chargeback entry with
\* AccountLocked (the chargeback locked the account); none repeats the balance
\* mutation: balances and status stay as the first application left them.
C16_Replay ==
    \A k \in DisputeKinds, a \in AccountIds, t \in TxIds :
        LET e == TransactionEntry(k, a, t, <<>>)
            r == Run(e)
        IN r.result = "Ok" =>
               LET again == process_entry(r.engine, e) IN
               /\ again.result = IF k = "Chargeback"
                                 THEN "AccountLocked"
                                 ELSE "TransactionAlreadyDisputed"
               /\ again.engine = r.engine

\* An account with 2 available after a dispute and a resolve, and a deposit
\* of 1 that can be disputed a first time; another account's Disputed deposit
\* of 1 can be resolved or charged back.
C16_Witness ==
    /\ \E a \in AccountIds, t \in TxIds, u \in TxIds :
        /\ HasTx(Engine, a, u) /\ Bucket(Engine, a)[u].status = "Resolved"
        /\ accounts[a].available = 2
        /\ HasTx(Engine, a, t) /\ Bucket(Engine, a)[t].amount = 1
        /\ Run(TransactionEntry("Dispute", a, t, <<>>)).result = "Ok"
    /\ \E a \in AccountIds, t \in TxIds :
        /\ HasTx(Engine, a, t) /\ Bucket(Engine, a)[t].amount = 1
        /\ Run(TransactionEntry("Resolve", a, t, <<>>)).result = "Ok"
        /\ Run(TransactionEntry("Chargeback", a, t, <<>>)).result = "Ok"

\* ------------------------------------------------------------------ C17
\* C17: processing a finite stream reaches its end; at every moment the
\* entries handed to the engine are the first pos entries of the stream, each
\* once and in input order; a failing entry does not stop or skip the ones
\* after it; and from the end on the engine is the fold of process_entry over
\* the whole stream from the empty engine.
C17_StreamEnds ==
    /\ [](handed = SubSeq(stream, 1, pos) /\ Engine = Fold(new, handed))
    /\ <>[](pos = Len(stream) /\ handed = stream /\ Engine = Fold(new, stream))

\* The end of a stream of MaxStream entries in which an entry failed and a
\* later entry succeeded.
C17_Witness ==
    /\ Len(stream) = MaxStream
    /\ pos = Len(stream)
    /\ \E i \in 1..Len(stream), j \in 1..Len(stream) :
        /\ i < j
        /\ process_entry(Fold(new, SubSeq(stream, 1, i - 1)), stream[i]).result # "Ok"
        /\ process_entry(Fold(new, SubSeq(stream, 1, j - 1)), stream[j]).result = "Ok"

\* ------------------------------------------------------------------ C18
\* C18: a deposit or withdrawal entry without an amount is rejected with the
\* MissingAmount conversion error and the engine is as before: no account
\* created, no balance changed, no transaction recorded, whether the named
\* account is locked, unknown or neither.
C18_MissingAmount ==
    \A k \in {"Deposit", "Withdrawal"}, a \in AccountIds, t \in TxIds :
        LET r == Run(TransactionEntry(k, a, t, <<>>)) IN
        /\ r.result = "InvalidEntryForConversion(MissingAmount)"
        /\ r.engine = Engine

\* One account is locked and the other unknown; an entry without amount is
\* rejected with MissingAmount for both.
C18_Witness ==
    \E a \in AccountIds, b \in AccountIds, t \in TxIds :
        /\ Locked(Engine, a)
        /\ ~HasAccount(Engine, b)
        /\ Run(TransactionEntry("Deposit", a, t, <<>>)).result
               = "InvalidEntryForConversion(MissingAmount)"
        /\ Run(TransactionEntry("Withdrawal", b, t, <<>>)).result
               = "InvalidEntryForConversion(MissingAmount)"

\* ------------------------------------------------------------------ C19
\* The engine that knows account a only.
Alone(a) ==
    [accounts |-> [b \in DOMAIN accounts \cap {a} |-> accounts[b]],
     transactions |-> [b \in DOMAIN transactions \cap {a} |-> transactions[b]]]

\* Engines x and y hold the same for account a.
SameFor(a, x, y) ==
    /\ HasAccount(x, a) = HasAccount(y, a)
    /\ HasAccount(x, a) => x.accounts[a] = y.accounts[a]
    /\ Bucket(x, a) = Bucket(y, a)

\* C19: tx ids are unique per account. A deposit or withdrawal whose tx id is
\* recorded under another account but not under its own is not a duplicate:
\* it is processed as if the other account did not exist. Two transactions
\* with one tx id under two accounts are stored and disputed independently:
\* an entry naming one of them acts as if the other account did not exist and
\* leaves the other's transaction as it was.
C19_PerAccountIds ==
    \A e \in EngineEntries :
        LET a == e.account_id
            t == e.tx_id
        IN (\E b \in AccountIds \ {a} : HasTx(Engine, b, t)) =>
               LET r == Run(e)
                   alone == process_entry(Alone(a), e)
               IN /\ r.result = alone.result
                  /\ SameFor(a, r.engine, alone.engine)
                  /\ \A b \in AccountIds \ {a} : Bucket(r.engine, b) = Bucket(Engine, b)
                  /\ (e \in MoneyEntries /\ ~HasTx(Engine, a, t)) =>
                         r.result # "TransactionAlreadyExists"

\* Both accounts hold a deposit under the same tx id, one Disputed and one
\* Completed, and a deposit under an id that only the other account has
\* recorded is accepted.
C19_Witness ==
    \E a \in AccountIds, b \in AccountIds, t \in TxIds, u \in TxIds :
        /\ a # b
        /\ HasTx(Engine, a, t) /\ Bucket(Engine, a)[t].status = "Disputed"
        /\ HasTx(Engine, b, t) /\ Bucket(Engine, b)[t].status = "Completed"
        /\ HasTx(Engine, a, u) /\ ~HasTx(Engine, b, u)
        /\ LET r == Run(TransactionEntry("Deposit", b, u, <<1>>)) IN
           /\ r.result = "Ok"
           /\ HasTx(r.engine, b, u) /\ HasTx(r.engine, a, u)

\* ------------------------------------------------------------------ C20
\* C20: under every entry, every account stays, and every recorded
\* transaction stays under its (account, tx id) with the tx_type, account_id,
\* tx_id and amount it had.
C20_RecordsOnlyGrow ==
    \A e \in Entries :
        LET r == Run(e) IN
        \A a \in AccountIds :
            /\ HasAccount(Engine, a) => HasAccount(r.engine, a)
            /\ \A t \in TxIds :
                HasTx(Engine, a, t) =>
                    /\ HasTx(r.engine, a, t)
                    /\ Bucket(r.engine, a)[t].tx_type = Bucket(Engine, a)[t].tx_type
                    /\ Bucket(r.engine, a)[t].account_id = Bucket(Engine, a)[t].account_id
                    /\ Bucket(r.engine, a)[t].tx_id = Bucket(Engine, a)[t].tx_id
                    /\ Bucket(r.engine, a)[t].amount = Bucket(Engine, a)[t].amount

\* An account with one recorded deposit of 1, since Resolved, accepts a
\* second transaction; the other account holds two transactions, one of them
\* Chargebacked.
C20_Witness ==
    \E a \in AccountIds, b \in AccountIds, t \in TxIds, u \in TxIds :
        /\ a # b /\ t # u
        /\ HasTx(Engine, a, t) /\ ~HasTx(Engine, a, u)
        /\ Bucket(Engine, a)[t].amount = 1 /\ Bucket(Engine, a)[t].status = "Resolved"
        /\ Run(TransactionEntry("Withdrawal", a, u, <<1>>)).result = "Ok"
        /\ HasTx(Engine, b, t) /\ HasTx(Engine, b, u)
        /\ Bucket(Engine, b)[t].status = "Chargebacked"

\* ------------------------------------------------------------------ C21
\* The account ids that have a record.
AccountSet(eng) == DOMAIN eng.accounts

\* The (account_id, tx_id) pairs that have a recorded transaction.
TxPairs(eng) == {<<a, t>> \in AccountIds \X TxIds : HasTx(eng, a, t)}

\* C21: a dispute, resolve or chargeback entry, whether it succeeds or fails,
\* leaves the set of account ids and the set of recorded (account_id, tx_id)
\* pairs as they were; a client unknown before it is unknown after it.
C21_NoCreation ==
    \A k \in DisputeKinds, a \in AccountIds, t \in TxIds :
        LET r == Run(TransactionEntry(k, a, t, <<>>)) IN
        /\ AccountSet(r.engine) = AccountSet(Engine)
        /\ TxPairs(r.engine) = TxPairs(Engine)

\* A client is unknown while the other holds a deposit that can be disputed:
\* the dispute naming the unknown client fails, the other one succeeds.
C21_Witness ==
    \E a \in AccountIds, b \in AccountIds, t \in TxIds :
        /\ ~HasAccount(Engine, a)
        /\ HasTx(Engine, b, t)
        /\ Run(TransactionEntry("Dispute", a, t, <<>>)).result = "TransactionNotFound"
        /\ Run(TransactionEntry("Dispute", b, t, <<>>)).result = "Ok"

\* ------------------------------------------------------------------ C22
\* C22: the first deposit or withdrawal handed to the engine for a client
\* creates the account before any of its checks. If the entry fails the
\* account exists with zero available, held and total, unlocked, and no
\* transaction is recorded; if it succeeds the account holds what the entry
\* moved onto the zero balances.
C22_FirstEntryCreates ==
    \A e \in MoneyEntries :
        ~HasAccount(Engine, e.account_id) =>
            LET a == e.account_id
                r == Run(e)
                moved == IF e.entry_type = "Deposit" THEN e.amount[1] ELSE 0 - e.amount[1]
            IN /\ HasAccount(r.engine, a)
               /\ r.result # "Ok" =>
                      /\ r.engine.accounts[a] = Account(a, 0, 0, 0, FALSE)
                      /\ Bucket(r.engine, a) = Bucket(Engine, a)
               /\ r.result = "Ok" =>
                      r.engine.accounts[a] = Account(a, moved, 0, moved, FALSE)

\* A client is unknown, and its first entry, a withdrawal of 1, is refused
\* with InsufficientFunds.
C22_Witness ==
    \E a \in AccountIds, t \in TxIds :
        /\ ~HasAccount(Engine, a)
        /\ Bucket(Engine, a) = EmptyMap
        /\ \E b \in AccountIds : HasAccount(Engine, b)
        /\ Run(TransactionEntry("Withdrawal", a, t, <<1>>)).result = "InsufficientFunds"

\* ------------------------------------------------------------------ C23
\* C23: every account id with a recorded transaction has an account record,
\* and no entry of any of the five kinds returns AccountNotFound.
C23_NoAccountNotFound ==
    /\ \A a \in AccountIds : Bucket(Engine, a) # EmptyMap => HasAccount(Engine, a)
    /\ \A e \in Entries : Run(e).result # "AccountNotFound"

\* One client has recorded transactions and is locked, the other is unknown:
\* the entries that reach update_account_balance and the ones naming an
\* unknown client are both at hand.
C23_Witness ==
    \E a \in AccountIds, b \in AccountIds, t \in TxIds :
        /\ HasTx(Engine, a, t) /\ Locked(Engine, a)
        /\ ~HasAccount(Engine, b)
        /\ Run(TransactionEntry("Chargeback", b, t, <<>>)).result = "TransactionNotFound"

\* ------------------------------------------------------------------ C24
\* C24: a successful deposit never decreases the account's available or
\* total, and a successful withdrawal never increases them, whatever amount
\* the engine accepted.
C24_Monotone ==
    \A e \in MoneyEntries :
        LET r == Run(e)
            before == Balance(Engine, e.account_id)
            after == Balance(r.engine, e.account_id)
        IN r.result = "Ok" =>
               IF e.entry_type = "Deposit"
               THEN after.available >= before.available /\ after.total >= before.total
               ELSE after.available <= before.available /\ after.total <= before.total

\* ------------------------------------------------------------------ C25
\* The sum of the amounts of the transactions of `bucket` stored under `ids`.
RECURSIVE SumAmounts(_, _)
SumAmounts(bucket, ids) ==
    IF ids = {}
    THEN 0
    ELSE LET t == CHOOSE x \in ids : TRUE IN
         bucket[t].amount + SumAmounts(bucket, ids \ {t})

\* The tx ids of account a's transactions of type `tx_type` whose status is in
\* `statuses`.
TxIdsOf(eng, a, tx_type, statuses) ==
    {t \in DOMAIN Bucket(eng, a) :
        /\ Bucket(eng, a)[t].tx_type = tx_type
        /\ Bucket(eng, a)[t].status \in statuses}

\* C25: in every reachable state each account's held is the sum of the
\* amounts of its deposits whose status is Disputed (zero when it has none),
\* locked or not.
C25_HeldIsDisputed ==
    \A a \in DOMAIN accounts :
        accounts[a].held
            = SumAmounts(Bucket(Engine, a), TxIdsOf(Engine, a, "Deposit", {"Disputed"}))

\* A locked account that still holds the amount of a Disputed deposit, next to
\* its Chargebacked one.
C25_Witness ==
    \E a \in DOMAIN accounts :
        /\ accounts[a].locked
        /\ accounts[a].held = 1
        /\ TxIdsOf(Engine, a, "Deposit", {"Disputed"}) # {}
        /\ TxIdsOf(Engine, a, "Deposit", {"Chargebacked"}) # {}

\* ------------------------------------------------------------------ C26
\* C26: in every reachable state each account's total is the sum of the
\* amounts of its recorded deposits that are not Chargebacked minus the sum of
\* the amounts of its recorded withdrawals.
C26_TotalIsConserved ==
    \A a \in DOMAIN accounts :
        accounts[a].total
            = SumAmounts(Bucket(Engine, a),
                         TxIdsOf(Engine, a, "Deposit", {"Completed", "Disputed", "Resolved"}))
              - SumAmounts(Bucket(Engine, a), TxIdsOf(Engine, a, "Withdrawal", TransactionStatus))

\* An account whose deposit of 1 was charged back, which took the 1 from its
\* total, and an account with a deposit and a withdrawal of 1 recorded.
C26_Witness ==
    /\ \E a \in DOMAIN accounts, t \in TxIds :
        /\ t \in TxIdsOf(Engine, a, "Deposit", {"Chargebacked"})
        /\ Bucket(Engine, a)[t].amount = 1
        /\ accounts[a].total = 0
    /\ \E a \in DOMAIN accounts, t \in TxIds, u \in TxIds :
        /\ t \in TxIdsOf(Engine, a, "Deposit", TransactionStatus)
        /\ u \in TxIdsOf(Engine, a, "Withdrawal", TransactionStatus)
        /\ Bucket(Engine, a)[u].amount = 1

\* ------------------------------------------------------------------ C27
\* Every recorded deposit and withdrawal has an amount >= 0 (an entry that
\* failed left nothing behind, so these are all the amounts that acted).
AmountsNonNegative ==
    \A a \in AccountIds : \A t \in DOMAIN Bucket(Engine, a) : Bucket(Engine, a)[t].amount >= 0

\* C27: when all deposit and withdrawal amounts are >= 0, the resolve and the
\* chargeback of a Disputed deposit on an unlocked account both succeed, and
\* no resolve or chargeback returns InsufficientHoldFunds or InsufficientFunds.
C27_ReleaseSucceeds ==
    AmountsNonNegative =>
        \A k \in {"Resolve", "Chargeback"}, a \in AccountIds, t \in TxIds :
            LET r == Run(TransactionEntry(k, a, t, <<>>)) IN
            /\ r.result \notin {"InsufficientHoldFunds", "InsufficientFunds"}
            /\ (~Locked(Engine, a) /\ t \in TxIdsOf(Engine, a, "Deposit", {"Disputed"})) =>
                   r.result = "Ok"

\* An unlocked account with two Disputed deposits of 1 and nothing available:
\* each can be resolved and charged back.
C27_Witness ==
    /\ AmountsNonNegative
    /\ \E a \in DOMAIN accounts, t \in TxIds, u \in TxIds :
        /\ t # u
        /\ ~accounts[a].locked
        /\ accounts[a].available = 0 /\ accounts[a].held = 2
        /\ {t, u} \subseteq TxIdsOf(Engine, a, "Deposit", {"Disputed"})
        /\ Run(TransactionEntry("Resolve", a, t, <<>>)).result = "Ok"
        /\ Run(TransactionEntry("Chargeback", a, u, <<>>)).result = "Ok"

\* ------------------------------------------------------------------ C28
\* C28: in every reachable state an account is locked exactly when one of its
\* transactions is Chargebacked, and none has two; once it is locked, every
\* entry leaves its Disputed deposits Disputed and its held as it is.
C28_LockedIffChargebacked ==
    /\ \A a \in DOMAIN accounts :
        /\ accounts[a].locked
               <=> Cardinality(TxIdsOf(Engine, a, "Deposit", {"Chargebacked"})) = 1
        /\ Cardinality(TxIdsOf(Engine, a, "Deposit", {"Chargebacked"})
                       \cup TxIdsOf(Engine, a, "Withdrawal", {"Chargebacked"})) <= 1
    /\ \A e \in Entries :
        LET after == Run(e).engine IN
        \A a \in DOMAIN accounts :
            accounts[a].locked =>
                /\ after.accounts[a].held = accounts[a].held
                /\ TxIdsOf(Engine, a, "Deposit", {"Disputed"})
                       \subseteq TxIdsOf(after, a, "Deposit", {"Disputed"})

\* A locked account with one Chargebacked and one Disputed deposit whose
\* amount is still held, and an unlocked account with a Resolved deposit.
C28_Witness ==
    /\ \E a \in DOMAIN accounts, t \in TxIds :
        /\ accounts[a].locked
        /\ accounts[a].held > 0
        /\ t \in TxIdsOf(Engine, a, "Deposit", {"Disputed"})
        /\ Run(TransactionEntry("Resolve", a, t, <<>>)).result = "AccountLocked"
    /\ \E a \in DOMAIN accounts :
        /\ ~accounts[a].locked
        /\ TxIdsOf(Engine, a, "Deposit", {"Resolved"}) # {}

\* ------------------------------------------------------------------ C29
\* The entries that name account a.
EntriesOf(a) == {e \in Entries : e.account_id = a}

\* C29: two entries that name different accounts commute: handed to the
\* engine in either order from the same state, each gets the result it gets
\* when it goes first, and the final accounts and transactions are the same.
C29_Commute ==
    \A a \in AccountIds, b \in AccountIds :
        a < b =>
            \A e1 \in EntriesOf(a) :
                LET r1 == Run(e1) IN
                \A e2 \in EntriesOf(b) :
                    LET r2 == Run(e2)
                        r12 == process_entry(r1.engine, e2)
                        r21 == process_entry(r2.engine, e1)
                    IN /\ r12.result = r2.result
                       /\ r21.result = r1.result
                       /\ r12.engine = r21.engine

\* Both clients can deposit under the same free tx id, one of them can have a
\* deposit disputed, and a withdrawal of the other fails: pairs of successes
\* and pairs of a success and a failure are at hand.
C29_Witness ==
    \E a \in AccountIds, b \in AccountIds, t \in TxIds, u \in TxIds :
        /\ a # b
        /\ Run(TransactionEntry("Deposit", a, t, <<1>>)).result = "Ok"
        /\ Run(TransactionEntry("Deposit", b, t, <<1>>)).result = "Ok"
        /\ Run(TransactionEntry("Dispute", a, u, <<>>)).result = "Ok"
        /\ Run(TransactionEntry("Withdrawal", b, t, <<1>>)).result = "InsufficientFunds"

\* ------------------------------------------------------------------ C30
\* The deltas the handlers pass: an amount, its negation, or zero.
Deltas == Amounts \cup {0 - d : d \in Amounts}

\* C30: update_account_balance on an unknown account returns AccountNotFound
\* and creates nothing; if one of available, held, total plus its delta is
\* negative it returns InsufficientFunds and changes none of the three;
\* otherwise it adds the three deltas to the three fields of that account and
\* changes nothing else.
C30_AllOrNothing ==
    \A a \in AccountIds, da \in Deltas, dh \in Deltas, dt \in Deltas :
        LET r == update_account_balance(Engine, a, da, dh, dt) IN
        IF ~HasAccount(Engine, a)
        THEN r.result = "AccountNotFound" /\ r.engine = Engine
        ELSE IF \/ accounts[a].available + da < 0
                \/ accounts[a].held + dh < 0
                \/ accounts[a].total + dt < 0
        THEN r.result = "InsufficientFunds" /\ r.engine = Engine
        ELSE /\ r.result = "Ok"
             /\ r.engine.accounts[a] = Account(a, accounts[a].available + da,
                                               accounts[a].held + dh,
                                               accounts[a].total + dt,
                                               accounts[a].locked)
             /\ \A b \in DOMAIN accounts \ {a} : r.engine.accounts[b] = accounts[b]
             /\ DOMAIN r.engine.accounts = DOMAIN accounts
             /\ r.engine.transactions = transactions

\* An account with funds available and nothing held, where a delta on
\* available is covered while the one on held is not, next to an unknown one.
C30_Witness ==
    \E a \in AccountIds, b \in AccountIds :
        /\ HasAccount(Engine, a) /\ accounts[a].available = 1 /\ accounts[a].held = 0
        /\ update_account_balance(Engine, a, 0 - 1, 0 - 1, 0).result = "InsufficientFunds"
        /\ update_account_balance(Engine, a, 0 - 1, 1, 0).result = "Ok"
        /\ ~HasAccount(Engine, b)
        /\ update_account_balance(Engine, b, 1, 0, 1).result = "AccountNotFound"

====
